---- MODULE Spec2Model ----
(***************************************************************************)
(* ipset-reduce6: the prefix-length reducer (ipset_reduce), the splitter   *)
(* (split_net_enabled), the counter (count_prefixes) and the part of main  *)
(* that drives them for the IPv4 and the IPv6 family.                      *)
(*                                                                         *)
(* A network is a record [version, addr, prefixlen, max_prefixlen], as an  *)
(* ipaddress.IPv4Network / IPv6Network object is: addr is the integer of   *)
(* the network address and max_prefixlen the bit width W of the family.    *)
(* The exhaustive inputs use scaled-down widths (MaxPrefix, DriverPrefix); *)
(* the concrete scenario uses the real IPv4 width.                         *)
(***************************************************************************)
EXTENDS Integers, Sequences, FiniteSets

\* ------------------------------------------------------------------ bounds
\* width W of the networks ipset_reduce is enumerated over
MaxPrefix == 3
\* largest number of aggregated networks handed to ipset_reduce
MaxNets == 3
\* width W of the networks of both families in the runs of main
DriverPrefix == 3
\* largest number of networks aggregate6 returns, both families together,
\* in one run of main
DriverNets == 2

\* --ipset-reduce PERCENT and --ipset-reduce-entries ENTRIES values tried
ReducePcts == {0, 50, 100}
ReduceEntries == {0, 8}
\* the same, in the runs of main
DriverPcts == {50}
DriverEntries == {0, 8}

None == 0 - 1

VARIABLES
    pc,               \* position in main
    family_filter,    \* "4", "6" or "none"
    v4_lines,         \* TRUE iff main collected at least one IPv4 line
    v6_lines,         \* TRUE iff main collected at least one IPv6 line
    reduce_pct,       \* args.reduce_pct
    reduce_entries,   \* args.reduce_entries
    returncode,       \* per family: status of its aggregate6 call (None: not run)
    cur,              \* family whose block of main is executing
    nets,             \* nets4 / nets6
    enabledv,         \* enabled4 / enabled6
    invoked,          \* families for which ipset_reduce has been entered
    enabled, counters, total, acceptable, eliminated, initial_prefixes,
    best_src, best_dst,   \* locals of ipset_reduce
    results,          \* main's list of output strings
    stdout            \* lines printed so far

vars == <<pc, family_filter, v4_lines, v6_lines, reduce_pct, reduce_entries,
          returncode, cur, nets, enabledv, invoked, enabled, counters, total,
          acceptable, eliminated, initial_prefixes, best_src, best_dst,
          results, stdout>>

driver_vars == <<family_filter, v4_lines, v6_lines, reduce_pct, reduce_entries>>
reducer_vars == <<enabled, counters, total, acceptable, eliminated,
                  initial_prefixes, best_src, best_dst>>

\* ----------------------------------------------------------------- helpers
RECURSIVE Pow2(_)
\* 1 << n
Pow2(n) == IF n = 0 THEN 1 ELSE 2 * Pow2(n - 1)

Max(a, b) == IF a >= b THEN a ELSE b

SetMin(S) == CHOOSE m \in S : \A x \in S : m <= x

RECURSIVE sorted(_)
\* sorted(set of ints), ascending
sorted(S) == IF S = {} THEN <<>> ELSE <<SetMin(S)>> \o sorted(S \ {SetMin(S)})

\* dict.get(key, 0)
get(d, key) == IF key \in DOMAIN d THEN d[key] ELSE 0

RECURSIVE SumOver(_, _)
SumOver(d, keys) ==
    IF keys = {} THEN 0
    ELSE LET k == CHOOSE x \in keys : TRUE IN d[k] + SumOver(d, keys \ {k})

\* sum(counters.values())
sum_values(d) == SumOver(d, DOMAIN d)

Net(v, a, p, w) == [version |-> v, addr |-> a, prefixlen |-> p, max_prefixlen |-> w]

\* the addresses a network covers
Addresses(net) ==
    {net.addr + d : d \in 0 .. (Pow2(net.max_prefixlen - net.prefixlen) - 1)}

\* str(net): the text names the family (and so its width), the address and the length
str(net) == <<net.version, net.max_prefixlen, net.addr, net.prefixlen>>

\* ipaddress.ip_network(text, strict=False)
ip_network(r) == Net(r[1], r[3] - (r[3] % Pow2(r[2] - r[4])), r[4], r[2])

\* ------------------------------------------------------------ the splitter
subnets_same_base(net) ==
    << [net EXCEPT !.prefixlen = @ + 1], [net EXCEPT !.prefixlen = @ + 1] >>

\* list(net.subnets(prefixlen_diff=1)): the two halves, in address order
subnets(net) ==
    << [net EXCEPT !.prefixlen = @ + 1],
       [net EXCEPT !.prefixlen = @ + 1,
                   !.addr = @ + Pow2(net.max_prefixlen - net.prefixlen - 1)] >>

RECURSIVE split_net_enabled(_, _)
split_net_enabled(net, en) ==
    IF net.prefixlen \in en THEN <<net>>
    ELSE IF net.prefixlen >= net.max_prefixlen THEN <<net>>
    ELSE split_net_enabled(subnets(net)[1], en)
         \o split_net_enabled(subnets(net)[2], en)

RECURSIVE split_all(_, _)
\* [sub for net in networks for sub in split_net_enabled(net, enabled)]
split_all(networks, en) ==
    IF networks = <<>> THEN <<>>
    ELSE split_net_enabled(Head(networks), en) \o split_all(Tail(networks), en)

\* {prefixlen: count} of a list of networks
tally(subs) ==
    [p \in {subs[k].prefixlen : k \in 1 .. Len(subs)} |->
        Cardinality({k \in 1 .. Len(subs) : subs[k].prefixlen = p})]

count_prefixes(networks, en) == tally(split_all(networks, en))

\* ------------------------------------------------------------- the reducer
multiplier_linear(i, j) == (j - i) + 1

multiplier_doubled(i, j) == Pow2(j - i + 1)

\* multiplier = 1 << (j - i)
multiplier(i, j) == Pow2(j - i)

\* acceptable ceiling; int(x / 100) truncates, and equals floor division here
ceiling(tot, pct, entries) ==
    LET a == (tot * (100 + pct)) \div 100
    IN IF a < entries THEN entries ELSE a

\* the nearest longer enabled prefix of se[idx] with a non-zero counter, or None
nearest_dst(cnt, se, idx) ==
    LET ks == {k \in (idx + 1) .. Len(se) : get(cnt, se[k]) # 0}
    IN IF ks = {} THEN None ELSE se[SetMin(ks)]

better_or_equal(increase, best_increase) == increase <= best_increase

\* if increase < best_increase
better(increase, best_increase) == increase < best_increase

RECURSIVE scan(_, _, _, _)
\* the for loop over sorted_enabled, from index idx on
scan(cnt, se, idx, best) ==
    IF idx > Len(se) THEN best
    ELSE LET i == se[idx]
             j == nearest_dst(cnt, se, idx)
         IN IF get(cnt, i) = 0 \/ j = None THEN scan(cnt, se, idx + 1, best)
            ELSE LET increase == cnt[i] * (multiplier(i, j) - 1)
                 IN IF better(increase, best.increase)
                    THEN scan(cnt, se, idx + 1,
                              [src |-> i, dst |-> j, increase |-> increase])
                    ELSE scan(cnt, se, idx + 1, best)

\* best_src, best_dst, best_increase after the scan of one iteration
select_best(cnt, en, acc) ==
    scan(cnt, sorted(en), 1, [src |-> None, dst |-> None, increase |-> acc * 10])

\* recompute exact multiplier
exact_increase(cnt, src, dst) == cnt[src] * multiplier(src, dst) - cnt[src]

exceeds_or_reaches(tot, increase, acc) == tot + increase >= acc

exceeds_ignoring_increase(tot, increase, acc) == tot > acc

\* if total + increase > acceptable
exceeds(tot, increase, acc) == tot + increase > acc

merged_counters_dropping_src(cnt, src, dst, increase) ==
    [p \in DOMAIN cnt \cup {dst} |->
        IF p = dst THEN get(cnt, dst) + increase
        ELSE IF p = src THEN 0 ELSE cnt[p]]

\* counters[best_dst] = counters.get(best_dst, 0) + increase + counters[best_src]
\* counters[best_src] = 0
merged_counters(cnt, src, dst, increase) ==
    [p \in DOMAIN cnt \cup {dst} |->
        IF p = dst THEN get(cnt, dst) + increase + cnt[src]
        ELSE IF p = src THEN 0 ELSE cnt[p]]

discard_dst(en, src, dst) == en \ {dst}

discard_nothing(en, src, dst) == en

\* enabled.discard(best_src)
discard(en, src, dst) == en \ {src}

\* ------------------------------------------------------------------ inputs
\* every canonical network of family v at width w
all_nets(v, w) ==
    {Net(v, a, p, w) : <<a, p>> \in
        {x \in (0 .. (Pow2(w) - 1)) \X (0 .. w) : x[1] % Pow2(w - x[2]) = 0}}

overlap(a, b) == Addresses(a) \cap Addresses(b) # {}

\* two halves of one parent: aggregate6 would have merged them
siblings(a, b) ==
    /\ a.prefixlen = b.prefixlen /\ a.prefixlen > 0 /\ a.addr # b.addr
    /\ a.addr \div Pow2(a.max_prefixlen - a.prefixlen + 1)
         = b.addr \div Pow2(b.max_prefixlen - b.prefixlen + 1)

RECURSIVE aggregated_sets(_, _)
\* the sets of at most k networks of N that aggregate6 can return:
\* pairwise non-overlapping, no two mergeable
aggregated_sets(N, k) ==
    IF k = 0 THEN {{}}
    ELSE LET S == aggregated_sets(N, k - 1)
         IN S \cup {x[1] \cup {x[2]} : x \in
                {y \in S \X N : \A t \in y[1] : ~overlap(t, y[2]) /\ ~siblings(t, y[2])}}

RECURSIVE sort_nets(_)
\* aggregate6 prints its result in address order
sort_nets(S) ==
    IF S = {} THEN <<>>
    ELSE LET m == CHOOSE n \in S : \A o \in S : n.addr <= o.addr
         IN <<m>> \o sort_nets(S \ {m})

\* 4 ranges of length 30 and 100 ranges of length 32, W = 32
ScenarioC ==
    [k \in 1 .. 104 |-> IF k <= 4 THEN Net(4, 8 * (k - 1), 30, 32)
                        ELSE Net(4, 32 + 2 * (k - 5), 32, 32)]

\* the aggregated lists ipset_reduce is checked on
ReducerInputs ==
    {sort_nets(S) : S \in aggregated_sets(all_nets(4, MaxPrefix), MaxNets)}
        \cup {ScenarioC}

\* what aggregate6 may print for family v in the runs of main
DriverOutputs4 == {sort_nets(S) : S \in aggregated_sets(all_nets(4, DriverPrefix), DriverNets)}
DriverOutputs6 == {sort_nets(S) : S \in aggregated_sets(all_nets(6, DriverPrefix), DriverNets)}
aggregate6(v) ==
    {out \in (IF v = 4 THEN DriverOutputs4 ELSE DriverOutputs6) :
        Len(out) + Len(nets[4]) + Len(nets[6]) <= DriverNets}

Families == {4, 6}

\* ----------------------------------------------------------- initial state
ReducerIdle ==
    /\ enabled = {} /\ counters = << >> /\ total = 0 /\ acceptable = 0
    /\ eliminated = 0 /\ initial_prefixes = 0
    /\ best_src = None /\ best_dst = None

\* main at line 378: input read and partitioned by family, nothing processed
InitMain ==
    /\ pc = "ipv4"
    /\ family_filter \in {"none", "4", "6"}
    /\ v4_lines \in BOOLEAN /\ v6_lines \in BOOLEAN
    /\ reduce_pct \in DriverPcts /\ reduce_entries \in DriverEntries
    /\ returncode = [v \in Families |-> None]
    /\ cur = 4
    /\ nets = [v \in Families |-> <<>>]
    /\ enabledv = [v \in Families |-> {}]
    /\ invoked = {}
    /\ ReducerIdle
    /\ results = <<>> /\ stdout = <<>>

\* main at line 387: aggregate6 returned `networks` for IPv4,
\* ipset_reduce is about to be called on it
Init ==
    /\ pc = "reduce"
    /\ family_filter = "4"
    /\ v4_lines = TRUE /\ v6_lines = FALSE
    /\ reduce_pct \in ReducePcts /\ reduce_entries \in ReduceEntries
    /\ returncode = [v \in Families |-> IF v = 4 THEN 0 ELSE None]
    /\ cur = 4
    /\ \E networks \in ReducerInputs : nets = [v \in Families |-> IF v = 4 THEN networks ELSE <<>>]
    /\ enabledv = [v \in Families |-> {}]
    /\ invoked = {}
    /\ ReducerIdle
    /\ results = <<>> /\ stdout = <<>>

\* ------------------------------------------------------------ ipset_reduce
\* lines 160-190: initial count, enabled set, total, ceiling
ReduceInit ==
    /\ pc = "reduce"
    /\ LET c == tally(nets[cur]) IN
        /\ counters' = c
        /\ enabled' = DOMAIN c
        /\ total' = sum_values(c)
        /\ initial_prefixes' = Cardinality(DOMAIN c)
        /\ acceptable' = ceiling(sum_values(c), reduce_pct, reduce_entries)
    /\ eliminated' = 0
    /\ best_src' = None /\ best_dst' = None
    /\ invoked' = invoked \cup {cur}
    /\ pc' = "loop"
    /\ UNCHANGED <<driver_vars, returncode, cur, nets, enabledv, results, stdout>>

\* return enabled (line 252), to main's enabled4 / enabled6
Return ==
    /\ enabledv' = [enabledv EXCEPT ![cur] = enabled]
    /\ pc' = "split"
    /\ UNCHANGED <<driver_vars, returncode, cur, nets, invoked, results, stdout,
                   enabled, counters, total, acceptable, eliminated, initial_prefixes>>

\* line 192: the while condition fails
LoopExit ==
    /\ pc = "loop"
    /\ ~(total < acceptable)
    /\ UNCHANGED <<best_src, best_dst>>
    /\ Return

\* lines 193-223: no pair found, break
NothingMore ==
    /\ pc = "loop"
    /\ total < acceptable
    /\ LET best == select_best(counters, enabled, acceptable) IN
        /\ ~(best.src # None /\ best.dst # None)
        /\ best_src' = best.src /\ best_dst' = best.dst
    /\ Return

\* lines 193-234: the cheapest pair would exceed the ceiling, break
CannotMerge ==
    /\ pc = "loop"
    /\ total < acceptable
    /\ LET best == select_best(counters, enabled, acceptable) IN
        /\ best.src # None /\ best.dst # None
        /\ exceeds(total, exact_increase(counters, best.src, best.dst), acceptable)
        /\ best_src' = best.src /\ best_dst' = best.dst
    /\ Return

\* lines 193-244: the cheapest pair is merged
Merge ==
    /\ pc = "loop"
    /\ total < acceptable
    /\ LET best == select_best(counters, enabled, acceptable) IN
        /\ best.src # None /\ best.dst # None
        /\ LET increase == exact_increase(counters, best.src, best.dst) IN
            /\ ~exceeds(total, increase, acceptable)
            /\ total' = total + increase
            /\ counters' = merged_counters(counters, best.src, best.dst, increase)
            /\ enabled' = discard(enabled, best.src, best.dst)
        /\ best_src' = best.src /\ best_dst' = best.dst
    /\ eliminated' = eliminated + 1
    /\ UNCHANGED <<pc, driver_vars, returncode, cur, nets, enabledv, invoked,
                   acceptable, initial_prefixes, results, stdout>>

\* -------------------------------------------------------------------- main
family_pc(v) == IF v = 4 THEN "ipv4" ELSE "ipv6"
lines_of(v) == IF v = 4 THEN v4_lines ELSE v6_lines
after(v) == IF v = 4 THEN "ipv6" ELSE "output"

\* if v4_lines and family_filter in (None, "4"): (and the same for v6)
applicable(v) ==
    lines_of(v) /\ family_filter \in {"none", IF v = 4 THEN "4" ELSE "6"}

exit_or_continue(rc) == "reduce"

\* aggregate_prefixes, lines 83-85: where main goes on a status rc
exit_on_error(rc) == IF rc # 0 THEN "exit" ELSE "reduce"

\* lines 380-381 / 393-394: the family's block is skipped
SkipFamily(v) ==
    /\ pc = family_pc(v)
    /\ ~applicable(v)
    /\ pc' = after(v)
    /\ UNCHANGED <<driver_vars, returncode, cur, nets, enabledv, invoked,
                   reducer_vars, results, stdout>>

\* lines 384 / 397 with aggregate_prefixes: aggregate6 ends with status 0
\* and main keeps what it printed
Aggregate(v) ==
    /\ pc = family_pc(v)
    /\ applicable(v)
    /\ \E out \in aggregate6(v) :
        /\ nets' = [nets EXCEPT ![v] = out]
    /\ returncode' = [returncode EXCEPT ![v] = 0]
    /\ cur' = v
    /\ pc' = exit_on_error(0)
    /\ UNCHANGED <<driver_vars, enabledv, invoked, reducer_vars, results, stdout>>

\* lines 384 / 397 with aggregate_prefixes: aggregate6 ends with a non-zero
\* status, sys.exit(1)
AggregateError(v) ==
    /\ pc = family_pc(v)
    /\ applicable(v)
    /\ returncode' = [returncode EXCEPT ![v] = 1]
    /\ cur' = v
    /\ pc' = exit_on_error(1)
    /\ UNCHANGED <<driver_vars, nets, enabledv, invoked, reducer_vars, results, stdout>>

\* lines 389-391 / 402-404: every network is split over the returned set
Split ==
    /\ pc = "split"
    /\ LET subs == split_all(nets[cur], enabledv[cur]) IN
        results' = results \o [k \in 1 .. Len(subs) |-> str(subs[k])]
    /\ pc' = after(cur)
    /\ UNCHANGED <<driver_vars, returncode, cur, nets, enabledv, invoked,
                   reducer_vars, stdout>>

\* lines 412-418: one decorated line per result
Output ==
    /\ pc = "output"
    /\ stdout' = [k \in 1 .. Len(results) |->
                    LET net == ip_network(results[k]) IN
                    [text |-> results[k],
                     is_host |-> (net.prefixlen = net.max_prefixlen)]]
    /\ pc' = "done"
    /\ UNCHANGED <<driver_vars, returncode, cur, nets, enabledv, invoked,
                   reducer_vars, results>>

\* --------------------------------------------------------- specifications
NextReducer ==
    \/ ReduceInit
    \/ LoopExit
    \/ NothingMore
    \/ CannotMerge
    \/ Merge
    \/ Split

Next == NextReducer

NextMain ==
    \/ NextReducer
    \/ \E v \in Families : SkipFamily(v)
    \/ \E v \in Families : Aggregate(v)
    \/ \E v \in Families : AggregateError(v)
    \/ Output

\* ipset_reduce and the split that follows it, on every bounded input
Spec == Init /\ [][Next]_vars

\* main over both families
SpecMain == InitMain /\ [][NextMain]_vars

\* ------------------------------------------------------------- properties
\* the list ipset_reduce was called on
networks == nets[cur]

\* ipset_reduce is past its initialisation (in the loop, or returned)
Reducing == pc \in {"loop", "split"}

\* the split of the IPv4 family is in results (Spec stops there)
SplitDone == pc = "ipv6"

parsed_results == [k \in 1 .. Len(results) |-> ip_network(results[k])]

Covered(seq) == UNION {Addresses(seq[k]) : k \in 1 .. Len(seq)}

\* the enabled lengths longer than i
longer(en, i) == {j \in en : j > i}

\* the adjacent pairs (i, j) of the live lengths of en: j the nearest longer one
adjacent_pairs(cnt, en) ==
    LET live == {p \in en : get(cnt, p) # 0}
    IN {<<i, SetMin(longer(live, i))>> : i \in {p \in live : longer(live, p) # {}}}

\* counters[i] * (2^(j-i) - 1)
cost(cnt, pair) == cnt[pair[1]] * (Pow2(pair[2] - pair[1]) - 1)

\* C1: coverage invariance. Once every input range has been split over the
\* set ipset_reduce returned, the output sub-ranges cover exactly the
\* addresses of the input ranges and no two of them overlap.
C1_CoverageInvariance ==
    SplitDone =>
        /\ Covered(parsed_results) = Covered(nets[4])
        /\ \A k, l \in 1 .. Len(results) :
              k # l => Addresses(parsed_results[k]) \cap Addresses(parsed_results[l]) = {}

\* a run in which the split really broke ranges up
C1_Witness ==
    SplitDone /\ Len(results) > Len(nets[4]) /\ Cardinality(enabledv[4]) >= 2

\* C2: the ceiling is never exceeded. acceptable is
\* max(floor(total_initial * (100 + reduce_pct) / 100), min_entries), it does
\* not change during the run, and total <= acceptable in every state of the
\* loop and at return.
C2_CeilingNeverExceeded ==
    Reducing =>
        /\ acceptable = Max((Len(networks) * (100 + reduce_pct)) \div 100, reduce_entries)
        /\ total <= acceptable

\* a merge was applied and a further one was rejected for overshooting
C2_Witness ==
    /\ pc = "split" /\ eliminated >= 1 /\ total < acceptable
    /\ best_src \in enabled
    /\ total + cost(counters, <<best_src, best_dst>>) > acceptable

\* C3: the longest prefix length of the input is never removed from the
\* enabled set, and every sub-range the split emits has a length of the
\* returned set (so the unsplittable fallback of split_net_enabled, which
\* emits a range whose length is not enabled, is never taken).
C3_FallbackUnreachable ==
    /\ (Reducing /\ networks # <<>>) =>
          \E k \in 1 .. Len(networks) :
              /\ \A l \in 1 .. Len(networks) : networks[l].prefixlen <= networks[k].prefixlen
              /\ networks[k].prefixlen \in enabled
    /\ SplitDone =>
          \A k \in 1 .. Len(results) : parsed_results[k].prefixlen \in enabledv[4]

\* host ranges (length W) in the input, a merge applied, ranges broken up
C3_Witness ==
    /\ SplitDone /\ eliminated >= 1 /\ Len(results) > Len(nets[4])
    /\ \E k \in 1 .. Len(nets[4]) : nets[4][k].prefixlen = nets[4][k].max_prefixlen

\* C4: every counter is >= 0 and the counters sum to total, after the
\* initialisation and after every merge.
C4_CountersSumToTotal ==
    Reducing =>
        /\ \A p \in DOMAIN counters : counters[p] >= 0
        /\ sum_values(counters) = total

C4_Witness == pc = "loop" /\ eliminated >= 2

\* C5: when ipset_reduce returns, every adjacent pair (i, j) of the final
\* enabled set would exceed the ceiling:
\* total + counters[i] * (2^(j-i) - 1) > acceptable.
C5_StopsOnlyWhenNothingFits ==
    pc = "split" =>
        \A i \in enabled :
            longer(enabled, i) # {} =>
                total + counters[i] * (Pow2(SetMin(longer(enabled, i)) - i) - 1) > acceptable

\* an early stop below the ceiling, after a merge, with pairs left
C5_Witness ==
    pc = "split" /\ eliminated >= 1 /\ total < acceptable /\ Cardinality(enabled) >= 2

\* scenario C: 4 ranges of length 30, 100 of length 32, reduce_pct 50, min_entries 0
InScenarioC ==
    nets[4] = ScenarioC /\ cur = 4 /\ reduce_pct = 50 /\ reduce_entries = 0

\* C6 as claimed: in scenario C the initial total is 104, the ceiling 156,
\* no merge is applied and the returned set is {30, 32}.
C6_ScenarioC_NoMerge ==
    (InScenarioC /\ Reducing) =>
        /\ acceptable = 156
        /\ total = 104 /\ eliminated = 0 /\ enabled = {30, 32}

\* C6 amended: in scenario C the initial total is 104 and the ceiling 156;
\* exactly one merge is applied, length 30 into length 32 at cost 12, and
\* the returned set is {32} with total 116.
C6_ScenarioC_OneMerge ==
    (InScenarioC /\ (Reducing \/ SplitDone)) =>
        /\ acceptable = 156
        /\ eliminated = 0 => (total = 104 /\ enabled = {30, 32} /\ pc = "loop")
        /\ eliminated # 0 => (eliminated = 1 /\ total = 116 /\ enabled = {32})
        /\ (pc = "loop" /\ eliminated = 1) => (best_src = 30 /\ best_dst = 32)
        /\ pc # "loop" => (eliminated = 1 /\ enabledv[4] = {32})
        /\ SplitDone => Len(results) = 116

C6_Witness == InScenarioC /\ SplitDone

\* C7: a family whose aggregate6 call ended with a non-zero status never
\* enters ipset_reduce, contributes no result and no printed line; the
\* process is stopped and has printed nothing at all.
C7_AggregatorFailureIsFatal ==
    \A v \in Families :
        (returncode[v] # None /\ returncode[v] # 0) =>
            /\ pc = "exit"
            /\ v \notin invoked
            /\ \A k \in 1 .. Len(results) : ip_network(results[k]).version # v
            /\ stdout = <<>>

\* IPv6 aggregation failed after IPv4 had been reduced and split
C7_Witness ==
    /\ pc = "exit" /\ returncode[6] = 1
    /\ 4 \in invoked /\ results # <<>>

C9_Termination ==
    /\ [][pc = "loop" =>
            \/ pc' = "split"
            \/ /\ pc' = "loop"
               /\ enabled' \subseteq enabled
               /\ Cardinality(enabled') = Cardinality(enabled) - 1
               /\ total' > total]_vars
    /\ [](Reducing =>
            /\ eliminated <= Max(initial_prefixes - 1, 0)
            /\ eliminated = initial_prefixes - Cardinality(enabled)
            /\ initial_prefixes = Cardinality({networks[k].prefixlen : k \in 1 .. Len(networks)})
            /\ \A k \in 1 .. Len(networks) : initial_prefixes - 1 <= networks[k].max_prefixlen
            /\ (pc = "split" /\ networks = <<>>) => enabled = {})

\* a run that merged all the way down to one length
C9_Witness ==
    pc = "split" /\ initial_prefixes >= 3 /\ eliminated = initial_prefixes - 1

\* C10: the incremental counters are the counts of a real split. For every
\* length p, counters[p] is the number of length-p sub-ranges count_prefixes
\* finds for the current enabled set; a length is enabled exactly when its
\* counter is non-zero; total is the number of entries a split emits.
C10_CountersMatchSplit ==
    Reducing =>
        LET real == count_prefixes(networks, enabled) IN
        /\ \A p \in DOMAIN counters \cup DOMAIN real : get(counters, p) = get(real, p)
        /\ \A p \in DOMAIN counters \cup enabled : (p \in enabled) <=> (get(counters, p) # 0)
        /\ total = Len(split_all(networks, enabled))

\* a merge applied across a gap of more than one length
C10_Witness ==
    /\ pc = "loop" /\ eliminated >= 1
    /\ best_dst - best_src >= 2
====
